---- MODULE Spec2Model ----
(***************************************************************************)
(* Model of src/compute_chi2.py: class HipparcosLogProb.                   *)
(*                                                                         *)
(* __init__ loads the catalog solution and the intermediate astrometric    *)
(* data (IAD) table, asks the ephemeris provider for the Earth position at *)
(* each epoch and reconstructs the abscissa points alpha_abs_st/delta_abs. *)
(* compute_lnprob scores a (P x M) matrix of candidates against them.      *)
(*                                                                         *)
(* Numbers.  A float is modelled as an exact extended rational <<n, d>>:   *)
(* d > 0 and gcd(|n|, d) = 1 for a finite value, <<1,0>> for +inf,         *)
(* <<-1,0>> for -inf and <<0,0>> for NaN, with the IEEE-754 rules for the  *)
(* non-finite values (inf - inf, 0 * inf, 0/0 are NaN; NaN propagates; a   *)
(* comparison with NaN is false).  Rounding error and the sign of zero are *)
(* not modelled.  A numpy array is a sequence of such values; a matrix is  *)
(* a sequence of rows.                                                     *)
(***************************************************************************)
EXTENDS Integers, Sequences, FiniteSets, TLC

\* Largest number M of candidate columns in one samples matrix.
MaxM == 2

-----------------------------------------------------------------------------
(* Extended rational arithmetic (numpy float64 semantics, exact).          *)

RECURSIVE GCD(_, _)
GCD(a, b) == IF b = 0 THEN a ELSE GCD(b, a % b)

IAbs(n) == IF n < 0 THEN -n ELSE n

ISign(n) == IF n < 0 THEN -1 ELSE IF n = 0 THEN 0 ELSE 1

\* The finite value n/d (d # 0) in canonical form.
Q(n, d) ==
    LET s == IF d < 0 THEN -1 ELSE 1
        g == GCD(IAbs(n), IAbs(d))
    IN  <<(s * n) \div g, (s * d) \div g>>

F(n) == <<n, 1>>

NaN == <<0, 0>>
PInf == <<1, 0>>
NInf == <<-1, 0>>

IsNaN(x) == x = NaN
IsFinite(x) == x[2] # 0
IsZero(x) == IsFinite(x) /\ x[1] = 0

Neg(x) == <<-x[1], x[2]>>

FAbs(x) == <<IAbs(x[1]), x[2]>>

Add(x, y) ==
    IF IsNaN(x) \/ IsNaN(y) THEN NaN
    ELSE IF ~IsFinite(x) /\ ~IsFinite(y) THEN (IF x = y THEN x ELSE NaN)
    ELSE IF ~IsFinite(x) THEN x
    ELSE IF ~IsFinite(y) THEN y
    ELSE Q(x[1] * y[2] + y[1] * x[2], x[2] * y[2])

Sub(x, y) == Add(x, Neg(y))

Mul(x, y) ==
    IF IsNaN(x) \/ IsNaN(y) THEN NaN
    ELSE IF ~IsFinite(x) \/ ~IsFinite(y)
         THEN (IF IsZero(x) \/ IsZero(y) THEN NaN
               ELSE <<ISign(x[1]) * ISign(y[1]), 0>>)
    ELSE Q(x[1] * y[1], x[2] * y[2])

Div(x, y) ==
    IF IsNaN(x) \/ IsNaN(y) THEN NaN
    ELSE IF ~IsFinite(x) /\ ~IsFinite(y) THEN NaN
    ELSE IF ~IsFinite(x) THEN <<ISign(x[1]) * (IF y[1] < 0 THEN -1 ELSE 1), 0>>
    ELSE IF ~IsFinite(y) THEN F(0)
    ELSE IF y[1] = 0 THEN (IF x[1] = 0 THEN NaN ELSE <<ISign(x[1]), 0>>)
    ELSE Q(x[1] * y[2], x[2] * y[1])

Sq(x) == Mul(x, x)

\* x <= 0 as numpy evaluates it: False for NaN.
LeqZero(x) == ~IsNaN(x) /\ x[1] <= 0

\* x < 0 as numpy evaluates it.
LtZero(x) == ~IsNaN(x) /\ x[1] < 0

-----------------------------------------------------------------------------
(* Arrays.                                                                 *)

RECURSIVE SumSeq(_)
\* np.sum over a one-dimensional array.
SumSeq(s) == IF s = <<>> THEN F(0) ELSE Add(Head(s), SumSeq(Tail(s)))

\* Column k (Python index, from 0) of a table given as a sequence of rows:
\* row k of np.transpose(table).
ColumnOf(rows, k) == [i \in 1..Len(rows) |-> rows[i][k + 1]]

-----------------------------------------------------------------------------
(* Collaborators of __init__: the catalog, the data file, the ephemeris.   *)

\* np.sin(np.radians(a)) and np.cos(np.radians(a)) at the quadrant angles the
\* catalogs below use (exact values; a is in degrees).
SinDeg(a) ==
    CASE a % 360 = 0 -> F(0)
      [] a % 360 = 90 -> F(1)
      [] a % 360 = 180 -> F(0)
      [] a % 360 = 270 -> F(-1)

CosDeg(a) ==
    CASE a % 360 = 0 -> F(1)
      [] a % 360 = 90 -> F(0)
      [] a % 360 = 180 -> F(-1)
      [] a % 360 = 270 -> F(0)

\* The van Leeuwen catalog rows the query may return (hip_cat): parallax [mas],
\* proper motions [mas/yr], position [deg].  A measured Hipparcos parallax can
\* be zero or negative.
Catalogs ==
    { [Plx |-> F(0), pmRA |-> F(0), pmDE |-> F(0), RArad |-> 0, DErad |-> 0],
      [Plx |-> F(1), pmRA |-> F(1), pmDE |-> F(-1), RArad |-> 90, DErad |-> 0],
      [Plx |-> F(-1), pmRA |-> F(0), pmDE |-> F(2), RArad |-> 0, DErad |-> 90] }

\* One row of the IAD file: [unused, time offset from 1991.25 (yr), unused,
\* cos(scan angle), sin(scan angle), abscissa residual, residual error].
Row(dt, c, s, r, e) == <<F(0), dt, F(0), c, s, r, e>>

\* A row cut short: its last column (the residual error) is absent.
ShortRow(dt, c, s, r) == <<F(0), dt, F(0), c, s, r>>

\* The two-epoch fixture: scans along RA then Dec, zero residuals, unit
\* errors, the second epoch one year after the reference epoch.
FileFixture ==
    << Row(F(0), F(1), F(0), F(0), F(1)), Row(F(1), F(0), F(1), F(0), F(1)) >>

\* The same fixture with the first epoch the one a year after the reference.
FileFixtureFirst ==
    << Row(F(1), F(1), F(0), F(0), F(1)), Row(F(0), F(0), F(1), F(0), F(1)) >>

\* Unit scan vectors, nonzero residuals.
FileResiduals ==
    << Row(F(0), F(1), F(0), F(2), F(1)), Row(F(1), F(0), F(1), F(-1), F(2)) >>

FileThreeEpochs ==
    << Row(Q(-1, 2), F(0), F(-1), F(-2), F(1)),
       Row(F(0), Q(3, 5), Q(4, 5), F(1), F(2)),
       Row(Q(1, 4), F(1), F(0), F(3), F(1)) >>

\* A scan vector that is not unit (cos_phi = sin_phi = 1).
FileNonUnit ==
    << Row(F(0), F(1), F(1), F(1), F(1)), Row(F(1), F(0), F(1), F(0), F(1)) >>

\* Rows of unequal length.
FileRagged ==
    << Row(F(0), F(1), F(0), F(0), F(1)), ShortRow(F(1), F(0), F(1), F(0)) >>

\* Every row lacks the residual-error column.
FileNoEps ==
    << ShortRow(F(0), F(1), F(0), F(0)), ShortRow(F(1), F(0), F(1), F(0)) >>

\* The contents of the IAD file after its header row, one table per file.
IadFiles ==
    { FileFixture, FileFixtureFirst, FileResiduals, FileThreeEpochs,
      FileNonUnit, FileRagged, FileNoEps }

\* The ephemeris provider behind get_body_barycentric_posvel: "origin" is the
\* in-memory stub that puts the Earth at [0,0,0] at every epoch; "orbit" moves
\* it with the quarter of the year.
Ephemerides == {"origin", "orbit"}

\* floor of a finite value
Floor(x) == x[1] \div x[2]

\* get_body_barycentric_posvel('earth', epoch): <<X, Y, Z>> [au].
EarthPosition(ephem, epoch) ==
    IF ephem = "origin" THEN <<F(0), F(0), F(0)>>
    ELSE CASE Floor(Mul(F(4), epoch)) % 4 = 0 -> <<F(1), F(0), F(0)>>
           [] Floor(Mul(F(4), epoch)) % 4 = 1 -> <<F(0), F(1), F(1)>>
           [] Floor(Mul(F(4), epoch)) % 4 = 2 -> <<F(-1), F(0), F(0)>>
           [] Floor(Mul(F(4), epoch)) % 4 = 3 -> <<F(0), F(-1), F(-1)>>

\* The reference epoch 1991.25 of the catalog.
RefEpoch == Q(199125, 100)

\* Time(t, format='decimalyear').mjd: the year fraction counted in days of
\* that calendar year (1992 is a leap year; valid for 1989..1995).
DecimalYearToMJD(t) ==
    LET y == Floor(t)
        jan1 == 48257 + 365 * (y - 1991) + (IF y > 1992 THEN 1 ELSE 0)
        days == IF y = 1992 THEN 366 ELSE 365
    IN  Add(F(jan1), Mul(F(days), Sub(t, F(y))))

-----------------------------------------------------------------------------
(* HipparcosLogProb.__init__                                               *)

\* The object before __init__ has set anything, and what is left when
\* __init__ raised: no instance.
NoInstance ==
    [plx0 |-> NaN, pm_ra0 |-> NaN, pm_dec0 |-> NaN, alpha0 |-> 0, delta0 |-> 0,
     epochs |-> <<>>, epochs_mjd |-> <<>>, cos_phi |-> <<>>, sin_phi |-> <<>>,
     R |-> <<>>, eps |-> <<>>, X |-> <<>>, Y |-> <<>>, Z |-> <<>>,
     alpha_abs_st |-> <<>>, delta_abs |-> <<>>]

\* np.loadtxt raises ValueError when the rows have unequal numbers of columns.
LoadtxtRaises(file) == \E i, k \in 1..Len(file) : Len(file[i]) # Len(file[k])

\* The number of columns of the loaded table.
NumColumns(file) == Len(file[1])

\* iad[5], iad[6] raise IndexError when the table has too few rows after the
\* transpose (too few columns in the file); iad[6] is the last one indexed.
IadIndexRaises(file) == NumColumns(file) < 7

\* The parallax factors of Nielsen+ 2020 Eqs 1-2 at Earth position <<x,y,z>>
\* for the catalog position (a0, d0) in degrees.
ParallaxFactorRA(x, y, a0) == Sub(Mul(x, SinDeg(a0)), Mul(y, CosDeg(a0)))

ParallaxFactorDec(x, y, z, a0, d0) ==
    Sub(Add(Mul(Mul(x, CosDeg(a0)), SinDeg(d0)), Mul(Mul(y, SinDeg(a0)), SinDeg(d0))),
        Mul(z, CosDeg(d0)))

\* The abscissa point with the scan component left out.
AbscissaPoint_unprojected(r, c, change) == Add(r, change)

\* Nielsen+ 2020 Eq 3: the residual laid along one scan component, added to
\* the catalog's predicted offset.
AbscissaPoint(r, c, change) == Add(Mul(r, c), change)

\* The fields __init__ sets, for a table that loads.
Reconstruct(cat, file, ephem) ==
    LET n == Len(file)
        times == [i \in 1..n |-> Add(ColumnOf(file, 1)[i], RefEpoch)]
        pos == [i \in 1..n |-> EarthPosition(ephem, times[i])]
        cos_phi == ColumnOf(file, 3)
        sin_phi == ColumnOf(file, 4)
        R == ColumnOf(file, 5)
        X == [i \in 1..n |-> pos[i][1]]
        Y == [i \in 1..n |-> pos[i][2]]
        Z == [i \in 1..n |-> pos[i][3]]
        changein_alpha_st == [i \in 1..n |->
            Add(Mul(cat.Plx, ParallaxFactorRA(X[i], Y[i], cat.RArad)),
                Mul(Sub(times[i], RefEpoch), cat.pmRA))]
        changein_delta == [i \in 1..n |->
            Add(Mul(cat.Plx, ParallaxFactorDec(X[i], Y[i], Z[i], cat.RArad, cat.DErad)),
                Mul(Sub(times[i], RefEpoch), cat.pmDE))]
    IN  [plx0 |-> cat.Plx, pm_ra0 |-> cat.pmRA, pm_dec0 |-> cat.pmDE,
         alpha0 |-> cat.RArad, delta0 |-> cat.DErad,
         epochs |-> times,
         epochs_mjd |-> [i \in 1..n |-> DecimalYearToMJD(times[i])],
         cos_phi |-> cos_phi, sin_phi |-> sin_phi,
         R |-> R, eps |-> ColumnOf(file, 6),
         X |-> X, Y |-> Y, Z |-> Z,
         alpha_abs_st |-> [i \in 1..n |-> AbscissaPoint(R[i], cos_phi[i], changein_alpha_st[i])],
         delta_abs |-> [i \in 1..n |-> AbscissaPoint(R[i], sin_phi[i], changein_delta[i])]]

\* A constructor that also rejects a scan vector that is not unit.
InitRaises_unit_checked(file) ==
    IF LoadtxtRaises(file) THEN "ValueError"
    ELSE IF IadIndexRaises(file) THEN "IndexError"
    ELSE IF \E i \in 1..Len(file) :
                Add(Sq(file[i][4]), Sq(file[i][5])) # F(1) THEN "ValueError"
    ELSE ""

\* The exception __init__ raises, "" when it returns normally.
InitRaises(file) ==
    IF LoadtxtRaises(file) THEN "ValueError"
    ELSE IF IadIndexRaises(file) THEN "IndexError"
    ELSE ""

\* HipparcosLogProb(hip_num): the exception raised and the instance built.
HipparcosLogProb_init(cat, file, ephem) ==
    IF InitRaises(file) # ""
    THEN [raised |-> InitRaises(file), self |-> NoInstance]
    ELSE [raised |-> "", self |-> Reconstruct(cat, file, ephem)]

-----------------------------------------------------------------------------
(* The orbit solver orbitize.kepler.calc_orbit (a collaborator).           *)

\* Two stand-ins for the solver, differing in the orbital phase they give an
\* epoch.
Solvers == {"phase0", "phase1"}

\* calc_orbit(epoch_mjd, sma, ecc, inc, aop, pan, tau, plx, mtot) for one
\* candidate: <<raoff, decoff>> [mas], the companion's offset.  The period is
\* sqrt(sma^3 / mtot): NaN, and NaN offsets, for a negative mtot or sma.
\* Otherwise the offset has length sma * plx along a direction that turns
\* with the epoch.
calc_orbit(solver, epoch_mjd, sma, ecc, inc, aop, pan, tau, plx, mtot) ==
    IF LtZero(mtot) \/ LtZero(sma) THEN <<NaN, NaN>>
    ELSE LET r == Mul(sma, plx)
             k == (Floor(epoch_mjd) + (IF solver = "phase1" THEN 1 ELSE 0)) % 4
         IN  CASE k = 0 -> <<r, F(0)>>
               [] k = 1 -> <<F(0), r>>
               [] k = 2 -> <<Neg(r), F(0)>>
               [] k = 3 -> <<F(0), Neg(r)>>

-----------------------------------------------------------------------------
(* HipparcosLogProb.compute_lnprob                                         *)

\* len(pm_ra): the number M of candidates (columns).
n_samples(samples) == Len(samples[1])

\* Row k (Python index) of the samples matrix.
SamplesRow(samples, k) == samples[k + 1]

\* The companion's offsets at epoch i, one pair per candidate (n_planets = 1).
OrbitOffsets(self, solver, samples, i) ==
    [j \in 1..n_samples(samples) |->
        calc_orbit(solver, self.epochs_mjd[i],
                   SamplesRow(samples, 5)[j], SamplesRow(samples, 6)[j],
                   SamplesRow(samples, 7)[j], SamplesRow(samples, 8)[j],
                   SamplesRow(samples, 9)[j], SamplesRow(samples, 10)[j],
                   SamplesRow(samples, 4)[j], SamplesRow(samples, 11)[j])]

\* A mass fraction taken from the primary instead of the secondary.
StarOffset_primary(off, m1, mtot) == Mul(off, Div(Neg(Sub(mtot, m1)), mtot))

\* raoff *= -m1 / mtot: the star's displacement about the barycenter.
StarOffset(off, m1, mtot) == Mul(off, Div(Neg(m1), mtot))

\* alpha_C_st at epoch i for candidate j.
alpha_C_st(self, solver, samples, i, j) ==
    LET base == Add(Add(SamplesRow(samples, 2)[j],
                        Mul(SamplesRow(samples, 4)[j],
                            ParallaxFactorRA(self.X[i], self.Y[i], self.alpha0))),
                    Mul(Sub(self.epochs[i], RefEpoch), SamplesRow(samples, 0)[j]))
    IN  IF Len(samples) = 13
        THEN Add(base, StarOffset(OrbitOffsets(self, solver, samples, i)[j][1],
                                  SamplesRow(samples, 12)[j], SamplesRow(samples, 11)[j]))
        ELSE base

\* delta_C at epoch i for candidate j.
delta_C(self, solver, samples, i, j) ==
    LET base == Add(Add(SamplesRow(samples, 3)[j],
                        Mul(SamplesRow(samples, 4)[j],
                            ParallaxFactorDec(self.X[i], self.Y[i], self.Z[i],
                                              self.alpha0, self.delta0))),
                    Mul(Sub(self.epochs[i], RefEpoch), SamplesRow(samples, 1)[j]))
    IN  IF Len(samples) = 13
        THEN Add(base, StarOffset(OrbitOffsets(self, solver, samples, i)[j][2],
                                  SamplesRow(samples, 12)[j], SamplesRow(samples, 11)[j]))
        ELSE base

\* The projection with the scan components exchanged.
Projection_swapped(da, dd, c, s) == FAbs(Add(Mul(da, s), Mul(dd, c)))

\* Nielsen+ 2020 Eq 6: the component of (da, dd) along the scan direction.
Projection(da, dd, c, s) == FAbs(Add(Mul(da, c), Mul(dd, s)))

\* dist[i, j] once the epoch loop has run.
dist(self, solver, samples) ==
    [i \in 1..Len(self.epochs) |-> [j \in 1..n_samples(samples) |->
        Projection(Sub(self.alpha_abs_st[i], alpha_C_st(self, solver, samples, i, j)),
                   Sub(self.delta_abs[i], delta_C(self, solver, samples, i, j)),
                   self.cos_phi[i], self.sin_phi[i])]]

\* The reduction reading candidate 0's distances for every candidate.
chi2_of_first(d, eps, j) ==
    SumSeq([i \in 1..Len(eps) |-> Sq(Div(d[i][1], eps[i]))])

\* Nielsen+ 2020 Eq 7 for candidate j: np.sum((dist[:,j] / self.eps)**2).
chi2_of(d, eps, j) ==
    SumSeq([i \in 1..Len(eps) |-> Sq(Div(d[i][j], eps[i]))])

chi2(self, solver, samples) ==
    LET d == dist(self, solver, samples)
    IN  [j \in 1..n_samples(samples) |-> chi2_of(d, self.eps, j)]

\* The prior leaving out plx = 0.
bad_plx_strict(plx) == {j \in 1..Len(plx) : LtZero(plx[j])}

\* np.where(plx <= 0)[0]
bad_plx(plx) == {j \in 1..Len(plx) : LeqZero(plx[j])}

\* The prior left out.
lnprob_no_prior(self, solver, samples) ==
    LET c == chi2(self, solver, samples)
    IN  [j \in 1..n_samples(samples) |-> Mul(Q(-1, 2), c[j])]

\* lnprob = -0.5 * chi2; lnprob[bad_plx] = -np.inf
lnprob_prior(self, solver, samples) ==
    LET c == chi2(self, solver, samples)
    IN  [j \in 1..n_samples(samples) |->
            IF j \in bad_plx(SamplesRow(samples, 4)) THEN NInf
            ELSE Mul(Q(-1, 2), c[j])]

\* The flag ignored.
ApplyNegative_ignored(lnprob, negative) == lnprob

\* if negative: lnprob *= -1
ApplyNegative(lnprob, negative) ==
    IF negative THEN [j \in 1..Len(lnprob) |-> Mul(lnprob[j], F(-1))] ELSE lnprob

\* The line printed for a wrong row count (its backquotes left out).
IncorrectNumber == "Incorrect number of fitting params in samples."

\* A call that has not been made.
NoCall == [raised |-> "", printed |-> "", returned |-> "", ret |-> <<>>]

\* compute_lnprob(samples, negative): the exception raised, the line printed,
\* what is returned ("array", "None", "" when an exception left the call) and
\* the array.
compute_lnprob(self, solver, samples, negative) ==
    IF Len(samples) < 5
    THEN [raised |-> "IndexError", printed |-> "", returned |-> "", ret |-> <<>>]
    ELSE IF Len(samples) \notin {5, 13}
    THEN [raised |-> "", printed |-> IncorrectNumber, returned |-> "None", ret |-> <<>>]
    ELSE [raised |-> "", printed |-> "", returned |-> "array",
          ret |-> ApplyNegative(lnprob_prior(self, solver, samples), negative)]

\* The matrix with alpha_C_st accumulated in place into the view samples[2].
SamplesAfter_aliased(self, solver, samples, negative) ==
    IF Len(samples) \in {5, 13}
    THEN [samples EXCEPT ![3] =
            [j \in 1..n_samples(samples) |->
                alpha_C_st(self, solver, samples, Len(self.epochs), j)]]
    ELSE samples

\* The caller's matrix after the call: pm_ra .. m1 are views of its rows, and
\* no statement writes through them (alpha_C_st, delta_C, raoff, decoff, dist
\* and lnprob are arrays of the call's own).
SamplesAfter(self, solver, samples, negative) == samples

-----------------------------------------------------------------------------
(* The callers' inputs.                                                    *)

\* Candidates of the 5-parameter layout: <<pm_ra, pm_dec, alpha_H0, delta_H0, plx>>.
Columns5 ==
    { <<F(0), F(0), F(0), F(0), F(1)>>,
      <<F(1), F(0), F(0), F(0), F(1)>>,
      <<F(0), F(0), F(0), F(0), F(-1)>>,
      <<F(1), F(-1), F(0), F(0), F(1)>>,
      <<F(0), F(0), F(1), F(2), F(0)>> }

\* Candidates of the 13-parameter layout: the five, then
\* <<sma, ecc, inc, aop, pan, tau, mtot, m1>>.
Columns13 ==
    { <<F(1), F(0), F(0), F(0), F(1)>>
          \o <<F(1), F(0), F(0), F(0), F(0), F(0), F(1), F(0)>>,
      <<F(0), F(0), F(0), F(0), F(1)>>
          \o <<F(2), F(0), F(0), F(0), F(0), F(0), F(2), F(1)>>,
      <<F(1), F(-1), F(0), F(0), F(1)>>
          \o <<F(1), F(0), F(0), F(0), F(0), F(0), F(-1), F(0)>>,
      <<F(0), F(0), F(1), F(2), F(-1)>>
          \o <<F(1), F(0), F(0), F(0), F(0), F(0), F(-1), F(1)>> }

\* np.array(columns).T: the (P x M) matrix whose columns are the candidates.
MatrixOf(cols) ==
    [k \in 1..Len(cols[1]) |-> [j \in 1..Len(cols) |-> cols[j][k]]]

\* Candidate j (from 1) alone, as a (P x 1) matrix.
ColumnMatrix(samples, j) == [k \in 1..Len(samples) |-> <<samples[k][j]>>]

Matrices(columns) ==
    { MatrixOf(cols) : cols \in UNION { [1..m -> columns] : m \in 1..MaxM } }

\* Matrices whose row count is neither 5 nor 13: 0, 4, 6, 12 and 14 rows.
BadMatrices ==
    LET full == MatrixOf(<< <<F(1), F(0), F(0), F(0), F(1)>>
          \o <<F(1), F(0), F(0), F(0), F(0), F(0), F(1), F(0)>> >>)
    IN  { SubSeq(full, 1, p) : p \in {0, 4, 6, 12} } \cup { Append(full, <<F(0)>>) }

SamplesInputs == Matrices(Columns5) \cup Matrices(Columns13) \cup BadMatrices

-----------------------------------------------------------------------------
(* The state machine.                                                      *)

VARIABLES
    catalog,    \* the catalog row the query returns
    iad_file,   \* the rows of the IAD file
    ephem,      \* the ephemeris provider
    solver,     \* the orbit solver
    status,     \* "new", "constructed", or "failed" when __init__ raised
    self,       \* the instance's fields
    pc,         \* "idle", or "returned" after a compute_lnprob call
    passed,     \* the samples matrix as the caller passed it
    samples,    \* the caller's samples matrix after the call
    negative,   \* the flag of the call
    out,        \* what the call raised, printed and returned
    prev        \* an earlier call, kept for comparison

vars == <<catalog, iad_file, ephem, solver, status, self, pc, passed, samples,
          negative, out, prev>>

\* No call kept.  between: a call with another matrix or flag was made since.
NoPrev == [samples |-> <<>>, negative |-> FALSE, out |-> NoCall, between |-> FALSE]

Init ==
    /\ catalog \in Catalogs
    /\ iad_file \in IadFiles
    /\ ephem \in Ephemerides
    /\ solver \in Solvers
    /\ status = "new"
    /\ self = NoInstance
    /\ pc = "idle"
    /\ passed = <<>>
    /\ samples = <<>>
    /\ negative = FALSE
    /\ out = NoCall
    /\ prev = NoPrev

\* PlanetPi = HipparcosLogProb(hip_num)
Construct ==
    /\ status = "new"
    /\ LET r == HipparcosLogProb_init(catalog, iad_file, ephem)
       IN  /\ status' = IF r.raised = "" THEN "constructed" ELSE "failed"
           /\ self' = r.self
    /\ UNCHANGED <<catalog, iad_file, ephem, solver, pc, passed, samples,
                   negative, out, prev>>

\* logprobs = PlanetPi.compute_lnprob(b, neg)
Call(b, neg) ==
    /\ status = "constructed"
    /\ pc = "idle"
    /\ passed' = b
    /\ negative' = neg
    /\ out' = compute_lnprob(self, solver, b, neg)
    /\ samples' = SamplesAfter(self, solver, b, neg)
    /\ pc' = "returned"
    /\ prev' = IF prev = NoPrev \/ (b = prev.samples /\ neg = prev.negative)
               THEN prev
               ELSE [prev EXCEPT !.between = TRUE]
    /\ UNCHANGED <<catalog, iad_file, ephem, solver, status, self>>

\* The caller drops the matrix and the result of the call.
Discard ==
    /\ pc = "returned"
    /\ pc' = "idle"
    /\ passed' = <<>>
    /\ samples' = <<>>
    /\ negative' = FALSE
    /\ out' = NoCall
    /\ UNCHANGED <<catalog, iad_file, ephem, solver, status, self, prev>>

\* The caller keeps the inputs and the outcome of a call of at most one
\* candidate, to compare a later call with.
Remember ==
    /\ pc = "returned"
    /\ prev = NoPrev
    /\ Len(passed) > 0 => n_samples(passed) = 1
    /\ prev' = [samples |-> passed, negative |-> negative, out |-> out,
                between |-> FALSE]
    /\ UNCHANGED <<catalog, iad_file, ephem, solver, status, self, pc, passed,
                   samples, negative, out>>

Next ==
    \/ Construct
    \/ \E b \in SamplesInputs, neg \in BOOLEAN : Call(b, neg)
    \/ Discard

Spec == Init /\ [][Next]_vars

\* The calls of one instance compared with one another: a catalog with a
\* positive parallax, a moving Earth, residuals that are not zero.
InitHist ==
    /\ Init
    /\ catalog.Plx = F(1)
    /\ iad_file \in {FileResiduals, FileThreeEpochs}
    /\ ephem = "orbit"

NextHist == Next \/ Remember

SpecHist == InitHist /\ [][NextHist]_vars

-----------------------------------------------------------------------------
(* The claims.                                                             *)

\* A call with a 5- or 13-row matrix has returned.
ValidCall == pc = "returned" /\ Len(passed) \in {5, 13}

\* The candidates of the call.
Candidates == 1..n_samples(passed)

\* The plx row of the call.
plx == SamplesRow(passed, 4)

\* C1: with negative=False, every candidate with plx <= 0 has output -inf
\* whatever chi2 the reduction gave it, and every candidate with plx > 0 has
\* output -0.5 * chi2.
C1_PriorOverridesChi2 ==
    (ValidCall /\ ~negative) =>
        /\ out.returned = "array"
        /\ Len(out.ret) = n_samples(passed)
        /\ \A j \in Candidates :
              IF LeqZero(plx[j])
              THEN out.ret[j] = NInf
              ELSE out.ret[j] = Mul(Q(-1, 2), chi2(self, solver, passed)[j])

\* A batch with a candidate of zero parallax and nonzero chi2, and a candidate
\* of positive parallax and nonzero chi2, was scored with negative=False.
C1_Witness ==
    /\ ValidCall /\ ~negative
    /\ \E j \in Candidates :
          /\ plx[j] = F(0)
          /\ chi2(self, solver, passed)[j] # F(0)
          /\ out.ret[j] = NInf
    /\ \E j \in Candidates :
          /\ ~LeqZero(plx[j])
          /\ IsFinite(out.ret[j]) /\ out.ret[j] # F(0)

\* C2: compute_lnprob(samples, negative=True) is the elementwise negation of
\* compute_lnprob(samples, negative=False), also at the candidates with
\* plx <= 0.
C2_NegativeIsNegation ==
    ValidCall =>
        LET other == compute_lnprob(self, solver, passed, ~negative).ret
        IN  /\ Len(out.ret) = n_samples(passed)
            /\ Len(other) = n_samples(passed)
            /\ \A j \in Candidates : out.ret[j] = Neg(other[j])

\* A call with negative=True returned +inf for a candidate with plx <= 0 and a
\* positive finite value for another.
C2_Witness ==
    /\ ValidCall /\ negative
    /\ \E j \in Candidates : LeqZero(plx[j]) /\ out.ret[j] = PInf
    /\ \E j \in Candidates : IsFinite(out.ret[j]) /\ out.ret[j][1] > 0

\* A 13-row call in which every candidate has m1 = 0 and mtot # 0.
ZeroMassCall ==
    /\ ValidCall /\ Len(passed) = 13
    /\ \A j \in Candidates :
          SamplesRow(passed, 12)[j] = F(0) /\ SamplesRow(passed, 11)[j] # F(0)

\* Every offset the solver returned in the call is finite.
FiniteOffsets ==
    \A i \in 1..Len(self.epochs) : \A j \in Candidates :
        /\ IsFinite(OrbitOffsets(self, solver, passed, i)[j][1])
        /\ IsFinite(OrbitOffsets(self, solver, passed, i)[j][2])

\* The call's output is that of the 5-row call on the first five rows.
SameAsFiveRows ==
    out.ret = compute_lnprob(self, solver, SubSeq(passed, 1, 5), negative).ret

C4_InvalidCountReported ==
    (pc = "returned" /\ Len(passed) \notin {5, 13}) =>
        /\ out.printed = IncorrectNumber
        /\ out.raised = ""
        /\ out.returned = "None"

C6_MinusInfEitherFlag ==
    ValidCall => \A j \in Candidates : LeqZero(plx[j]) => out.ret[j] = NInf

\* C6 amended: the returned vector has -inf at every candidate with plx <= 0
\* when negative=False, and +inf there when negative=True.
C6_InfBySign ==
    ValidCall => \A j \in Candidates :
        LeqZero(plx[j]) => out.ret[j] = (IF negative THEN PInf ELSE NInf)

\* A 13-row call with negative=True returned +inf at a candidate with plx <= 0.
C6_Witness ==
    /\ ValidCall /\ negative /\ Len(passed) = 13
    /\ \E j \in Candidates : LeqZero(plx[j]) /\ out.ret[j] = PInf

\* Some epoch record of the file has a scan vector that is not unit.
NonUnitScan(file) ==
    \E i \in 1..Len(file) : Add(Sq(file[i][4]), Sq(file[i][5])) # F(1)

\* The per-epoch sequences are missing or of unequal length: some row of the
\* file lacks a column.
Misaligned(file) == \E i \in 1..Len(file) : Len(file[i]) < 7

\* C7 as stated: construction fails, leaving no instance, whenever a scan
\* vector is not unit or the per-epoch sequences are missing or misaligned.
C7_FailsOnNonUnitOrMisaligned ==
    (status # "new" /\ (NonUnitScan(iad_file) \/ Misaligned(iad_file))) =>
        (status = "failed" /\ self = NoInstance)

\* C7 amended: construction fails, leaving no instance, exactly when the
\* per-epoch sequences are missing or misaligned; a scan vector that is not
\* unit is not looked at, and the instance is built with the components as
\* loaded, every sequence one entry per row.
C7_FailsOnMisalignedOnly ==
    /\ (status # "new" /\ Misaligned(iad_file)) =>
          (status = "failed" /\ self = NoInstance)
    /\ (status # "new" /\ ~Misaligned(iad_file)) =>
          /\ status = "constructed"
          /\ self.cos_phi = ColumnOf(iad_file, 3)
          /\ self.sin_phi = ColumnOf(iad_file, 4)
          /\ \A f \in {self.epochs, self.R, self.eps, self.X, self.Y, self.Z,
                       self.alpha_abs_st, self.delta_abs} : Len(f) = Len(iad_file)
    /\ status = "failed" => pc = "idle"

\* An instance built from a file with a scan vector that is not unit has
\* scored a batch.
C7_Witness ==
    /\ status = "constructed"
    /\ NonUnitScan(iad_file)
    /\ ValidCall /\ out.returned = "array"

\* The time since the reference epoch at epoch i.
DeltaT(i) == Sub(self.epochs[i], RefEpoch)

\* The two-epoch fixture, one epoch at Delta_t = 1 and the other at 0, and the
\* candidate [1,0,0,0,1] scored with negative=False.
Fixture8 ==
    /\ ValidCall /\ ~negative
    /\ passed = MatrixOf(<< <<F(1), F(0), F(0), F(0), F(1)>> >>)
    /\ self.cos_phi = <<F(1), F(0)>> /\ self.sin_phi = <<F(0), F(1)>>
    /\ self.R = <<F(0), F(0)>> /\ self.eps = <<F(1), F(1)>>
    /\ self.plx0 = F(0) /\ self.pm_ra0 = F(0) /\ self.pm_dec0 = F(0)
    /\ self.X = <<F(0), F(0)>> /\ self.Y = <<F(0), F(0)>> /\ self.Z = <<F(0), F(0)>>
    /\ {DeltaT(1), DeltaT(2)} = {F(0), F(1)}

\* C8 as stated: on the fixture the candidate [1,0,0,0,1] has a nonzero chi2,
\* contributed by exactly the epoch at Delta_t = 1, whichever epoch that is.
C8_NonzeroWhicheverEpoch ==
    Fixture8 =>
        /\ chi2(self, solver, passed)[1] # F(0)
        /\ \A i \in 1..2 :
              (dist(self, solver, passed)[i][1] # F(0)) <=> (DeltaT(i) = F(1))

\* C8 amended: when the epoch at Delta_t = 1 is the first one (scanned along
\* RA, cos_phi = 1) chi2 = 1, contributed by that epoch alone, and
\* lnprob = -1/2; when it is the second one (scanned along Dec, cos_phi = 0)
\* dist is 0 at both epochs and chi2 = 0.
C8_NonzeroWhenScannedAlongRA ==
    Fixture8 =>
        IF DeltaT(1) = F(1)
        THEN /\ dist(self, solver, passed)[1][1] = F(1)
             /\ dist(self, solver, passed)[2][1] = F(0)
             /\ chi2(self, solver, passed)[1] = F(1)
             /\ out.ret = <<Q(-1, 2)>>
        ELSE /\ dist(self, solver, passed)[1][1] = F(0)
             /\ dist(self, solver, passed)[2][1] = F(0)
             /\ chi2(self, solver, passed)[1] = F(0)
             /\ out.ret = <<F(0)>>

\* The fixture with the first epoch at Delta_t = 1 has scored the candidate.
C8_Witness == Fixture8 /\ DeltaT(1) = F(1) /\ out.ret = <<Q(-1, 2)>>

\* The catalog's predicted offsets at epoch i (Nielsen+ 2020 Eqs 1-2).
CatalogAlpha(i) ==
    Add(Mul(self.plx0, ParallaxFactorRA(self.X[i], self.Y[i], self.alpha0)),
        Mul(DeltaT(i), self.pm_ra0))

CatalogDelta(i) ==
    Add(Mul(self.plx0, ParallaxFactorDec(self.X[i], self.Y[i], self.Z[i],
                                         self.alpha0, self.delta0)),
        Mul(DeltaT(i), self.pm_dec0))

\* Candidate j of a 5-row call predicts the catalog's track at every epoch.
TrackMatches(j) ==
    \A i \in 1..Len(self.epochs) :
        /\ alpha_C_st(self, solver, passed, i, j) = CatalogAlpha(i)
        /\ delta_C(self, solver, passed, i, j) = CatalogDelta(i)

\* A 5-row call with negative=False on an instance whose scan vectors are unit.
UnitFiveRowCall ==
    /\ ValidCall /\ ~negative /\ Len(passed) = 5
    /\ ~NonUnitScan(iad_file)

\* sum_i (R_i / eps_i)^2
ResidualChi2 ==
    SumSeq([i \in 1..Len(self.epochs) |-> Sq(Div(self.R[i], self.eps[i]))])

\* C10 as stated: a candidate that predicts the catalog's track has
\* dist_i = |R_i| at every epoch and lnprob = -0.5 * sum_i (R_i/eps_i)^2.
C10_TrackMatchScoresResiduals ==
    UnitFiveRowCall => \A j \in Candidates :
        TrackMatches(j) =>
            /\ \A i \in 1..Len(self.epochs) :
                  dist(self, solver, passed)[i][j] = FAbs(self.R[i])
            /\ out.ret[j] = Mul(Q(-1, 2), ResidualChi2)

\* C10 amended: a candidate that predicts the catalog's track has
\* dist_i = |R_i| at every epoch and chi2 = sum_i (R_i/eps_i)^2; its lnprob is
\* -0.5 * chi2 when its plx > 0 and -inf when its plx <= 0.
C10_TrackMatchScoresResidualsIfPlxPositive ==
    UnitFiveRowCall => \A j \in Candidates :
        TrackMatches(j) =>
            /\ \A i \in 1..Len(self.epochs) :
                  dist(self, solver, passed)[i][j] = FAbs(self.R[i])
            /\ chi2(self, solver, passed)[j] = ResidualChi2
            /\ out.ret[j] =
                  (IF LeqZero(plx[j]) THEN NInf ELSE Mul(Q(-1, 2), ResidualChi2))

\* The candidate [pm_ra0, pm_dec0, 0, 0, plx0] with plx0 > 0 was scored
\* against three epochs with a moving Earth and nonzero residuals.
C10_Witness ==
    /\ UnitFiveRowCall
    /\ ephem = "orbit" /\ Len(self.epochs) = 3
    /\ \E j \in Candidates :
          /\ TrackMatches(j)
          /\ plx[j] = self.plx0 /\ ~LeqZero(plx[j])
          /\ SamplesRow(passed, 0)[j] = self.pm_ra0
          /\ out.ret[j] = Mul(Q(-1, 2), ResidualChi2)
          /\ out.ret[j] # F(0)

====
